---- MODULE Spec2Model ----
(***************************************************************************)
(* Model of the HTTP index provider: the admin handlers create, add_chunk  *)
(* and publish_ad, the public handlers head and block, the three RwLocks   *)
(* of Provider (head, temp_ads, blockstore) and the advertisement builder  *)
(* and signature payload of advertisement.rs.                              *)
(*                                                                         *)
(* Encodings.  Byte strings and text are sequences of integers.  An        *)
(* Option<Cid> is a sequence of length 0 (None) or 1 (Some(cid)).  An      *)
(* Option<Ipld> or Ipld value is a record [kind, val] with kind "None",    *)
(* "Link", "Bytes" or "Other" (any Ipld that is neither a link nor a byte  *)
(* string) and val a sequence of integers.  The block store is content     *)
(* addressed: it is the sequence of the distinct records put so far, and   *)
(* the Cid of a record is its position in that sequence, so equal records  *)
(* get equal Cids and different records get different Cids.                *)
(***************************************************************************)
EXTENDS Integers, Sequences, FiniteSets, TLC

(* -------- bounds of the model -------- *)
NumProcs == 2
NumIds == 2
MaxRequests == 5
\* requests served in a fair run
MaxFairRequests == 4

Procs == 1..NumProcs
\* the values rand::thread_rng().gen::<i64>() and the :id path parameter range over
Ids == 1..NumIds

(* -------- program constants (as numbers standing for the strings) -------- *)
AD_SIGNATURE_CODEC == 71
AD_SIGNATURE_DOMAIN == 72
\* multihash code of Sha2_256
Sha2_256 == 18
\* the provider's key pair
Keypair == 5

(* -------- Ipld values -------- *)
IpldNone == [kind |-> "None", val |-> <<>>]
IpldOther == [kind |-> "Other", val |-> <<>>]
IpldLink(cid) == [kind |-> "Link", val |-> <<cid>>]
IpldBytes(b) == [kind |-> "Bytes", val |-> b]

RECURSIVE Concat(_)
Concat(ss) == IF ss = <<>> THEN <<>> ELSE Head(ss) \o Concat(Tail(ss))

\* Cid::to_bytes of the link: a fixed-format encoding of the Cid
CidBytes(cid) == <<100 + cid>>

(* -------- advertisement.rs -------- *)
Ok(v) == [ok |-> TRUE, err |-> "", val |-> v]
Err(e) == [ok |-> FALSE, err |-> e, val |-> <<>>]

\* (the two links appended in the other order)
sig_payload_entries_first(ad) ==
    IF ad.PreviousID.kind \notin {"Link", "None"} THEN Err("InvalidPreviousID")
    ELSE IF ad.Entries.kind \notin {"Link", "None"} THEN Err("InvalidEntryChunkLink")
    ELSE IF ad.Metadata.kind # "Bytes" THEN Err("InvalidMetadata")
    ELSE LET previous_id_bytes == IF ad.PreviousID.kind = "Link"
                                  THEN CidBytes(ad.PreviousID.val[1]) ELSE <<>>
             entrychunk_link_bytes == IF ad.Entries.kind = "Link"
                                      THEN CidBytes(ad.Entries.val[1]) ELSE <<>>
             is_rm_payload == IF ad.IsRm THEN <<1>> ELSE <<0>>
             payload == entrychunk_link_bytes \o previous_id_bytes \o ad.Provider
                        \o Concat(ad.Addresses) \o ad.Metadata.val \o is_rm_payload
         IN  Ok(<<Sha2_256>> \o payload)
\* (the ContextID signed with the other fields)
sig_payload_with_context(ad) ==
    IF ad.PreviousID.kind \notin {"Link", "None"} THEN Err("InvalidPreviousID")
    ELSE IF ad.Entries.kind \notin {"Link", "None"} THEN Err("InvalidEntryChunkLink")
    ELSE IF ad.Metadata.kind # "Bytes" THEN Err("InvalidMetadata")
    ELSE LET previous_id_bytes == IF ad.PreviousID.kind = "Link"
                                  THEN CidBytes(ad.PreviousID.val[1]) ELSE <<>>
             entrychunk_link_bytes == IF ad.Entries.kind = "Link"
                                      THEN CidBytes(ad.Entries.val[1]) ELSE <<>>
             is_rm_payload == IF ad.IsRm THEN <<1>> ELSE <<0>>
             payload == previous_id_bytes \o entrychunk_link_bytes \o ad.Provider
                        \o Concat(ad.Addresses) \o ad.ContextID.val \o ad.Metadata.val
                        \o is_rm_payload
         IN  Ok(<<Sha2_256>> \o payload)
sig_payload(ad) ==
    IF ad.PreviousID.kind \notin {"Link", "None"} THEN Err("InvalidPreviousID")
    ELSE IF ad.Entries.kind \notin {"Link", "None"} THEN Err("InvalidEntryChunkLink")
    ELSE IF ad.Metadata.kind # "Bytes" THEN Err("InvalidMetadata")
    ELSE LET previous_id_bytes == IF ad.PreviousID.kind = "Link"
                                  THEN CidBytes(ad.PreviousID.val[1]) ELSE <<>>
             entrychunk_link_bytes == IF ad.Entries.kind = "Link"
                                      THEN CidBytes(ad.Entries.val[1]) ELSE <<>>
             is_rm_payload == IF ad.IsRm THEN <<1>> ELSE <<0>>
             payload == previous_id_bytes \o entrychunk_link_bytes \o ad.Provider
                        \o Concat(ad.Addresses) \o ad.Metadata.val \o is_rm_payload
         IN  Ok(<<Sha2_256>> \o payload)

\* SignedEnvelope::new(...).into_protobuf_encoding(): key, domain, payload type, payload
sign(ad, signing_key) ==
    LET p == sig_payload(ad)
    IN  IF p.ok THEN Ok(<<signing_key, AD_SIGNATURE_DOMAIN, AD_SIGNATURE_CODEC>> \o p.val)
        ELSE p

\* (the Signature field looked at before the payload is computed)
verify_sig_signature_first(ad) ==
    LET payload == sig_payload(ad)
    IN  IF ad.Signature.kind # "Bytes" THEN "MissingSig"
        ELSE IF ~payload.ok THEN payload.err
        ELSE IF Len(ad.Signature.val) < 3 THEN "DecodingError"
        ELSE IF \/ ad.Signature.val[2] # AD_SIGNATURE_DOMAIN
                \/ ad.Signature.val[3] # AD_SIGNATURE_CODEC THEN "ReadPayloadError"
        ELSE IF SubSeq(ad.Signature.val, 4, Len(ad.Signature.val)) # payload.val
             THEN "PayloadDidNotMatch"
        ELSE "Ok"
verify_sig(ad) ==
    LET payload == sig_payload(ad)
    IN  IF ~payload.ok THEN payload.err
        ELSE IF ad.Signature.kind # "Bytes" THEN "MissingSig"
        ELSE IF Len(ad.Signature.val) < 3 THEN "DecodingError"
        ELSE IF \/ ad.Signature.val[2] # AD_SIGNATURE_DOMAIN
                \/ ad.Signature.val[3] # AD_SIGNATURE_CODEC THEN "ReadPayloadError"
        ELSE IF SubSeq(ad.Signature.val, 4, Len(ad.Signature.val)) # payload.val
             THEN "PayloadDidNotMatch"
        ELSE "Ok"

\* (the advertisement signed before its Entries are set)
build_signs_first(builder, signing_key) ==
    LET sig0 == sign(builder.ad, signing_key)
    IN  IF sig0.ok THEN Ok([builder.ad EXCEPT !.Entries = builder.entries_link,
                                             !.Signature = IpldBytes(sig0.val)])
        ELSE sig0
build(builder, signing_key) ==
    LET ad1 == [builder.ad EXCEPT !.Entries = builder.entries_link]
        sig == sign(ad1, signing_key)
    IN  IF sig.ok THEN Ok([ad1 EXCEPT !.Signature = IpldBytes(sig.val)])
        ELSE sig

EntryChunk(entries, next) == [Entries |-> entries, Next |-> next]

(* -------- the block store -------- *)
Has(bs, rec) == \E i \in 1..Len(bs) : bs[i] = rec
CidOf(bs, rec) == CHOOSE i \in 1..Len(bs) : bs[i] = rec
\* BlockStore::put: stores the record under its content identifier
Put(bs, rec) == IF Has(bs, rec) THEN bs ELSE Append(bs, rec)

(* -------- request bodies -------- *)
Advertisement(prev, meta) ==
    [PreviousID |-> prev, Provider |-> <<1>>, Addresses |-> << <<2>> >>,
     Signature |-> IpldBytes(<<>>), Entries |-> IpldNone, ContextID |-> IpldBytes(<<3>>),
     Metadata |-> meta, IsRm |-> FALSE]
\* the advertisements a create body decodes to
BodyAds == { Advertisement(IpldNone, IpldBytes(<<>>)),
             Advertisement(IpldNone, IpldOther) }
\* the entry lists an entryChunk body decodes to
BodyEntries == { <<11>>, <<12>> }

(* -------- state -------- *)
VARIABLES
    head,            \* Provider.head: Option<Cid>
    temp_ads,        \* Provider.temp_ads: HashMap<i64, AdvertisementBuilder>
    blockstore,      \* Provider.blockstore
    head_lock,       \* the task holding head's write guard, 0 if none
    temp_ads_lock,   \* the task holding temp_ads' write guard, 0 if none
    blockstore_lock, \* the task holding blockstore's write guard, 0 if none
    pc,              \* where each request task stands
    req,             \* the parameters of the request each task serves
    local,           \* publish_ad's locals current_head and ad_builder (gen: history,
                     \* which create made the draft it removed)
    resp,            \* the response sent last (op and id: the request it answers)
    published,       \* history: the successful publishes, in order
    draft_gen,       \* history: which create made each open draft
    ncreated,        \* history: number of drafts registered so far
    nreq,            \* number of requests started
    appends,         \* history: the add_chunk attempts on each open draft since its create
    sig              \* an advertisement builder on its own: built, then verified

\* the state of the provider
provider == <<head, temp_ads, blockstore, head_lock, temp_ads_lock, blockstore_lock,
              pc, req, local, resp, published, draft_gen, ncreated, nreq, appends>>
vars == <<head, temp_ads, blockstore, head_lock, temp_ads_lock, blockstore_lock,
          pc, req, local, resp, published, draft_gen, ncreated, nreq, appends, sig>>

NoAd == Advertisement(IpldNone, IpldBytes(<<>>))
NoBuilder == [ad |-> NoAd, entries_link |-> IpldNone]
NoReq == [op |-> "none", id |-> 0, ad |-> NoAd, entries |-> <<>>]
NoLocal == [current_head |-> <<>>, ad_builder |-> NoBuilder, gen |-> 0]
NoResp == [op |-> "none", id |-> 0, status |-> "None", val |-> <<>>]
Response(op, id, status, val) == [op |-> op, id |-> id, status |-> status, val |-> val]
NoSig == [builder |-> NoBuilder, stage |-> "none", res |-> "None"]

\* the provider as main constructs it
InitProvider ==
    /\ head = <<>>
    /\ temp_ads = <<>>
    /\ blockstore = <<>>
    /\ head_lock = 0
    /\ temp_ads_lock = 0
    /\ blockstore_lock = 0
    /\ pc = [p \in Procs |-> "idle"]
    /\ req = [p \in Procs |-> NoReq]
    /\ local = [p \in Procs |-> NoLocal]
    /\ resp = NoResp
    /\ published = <<>>
    /\ draft_gen = <<>>
    /\ ncreated = 0
    /\ nreq = 0
    /\ appends = <<>>

Init ==
    /\ InitProvider
    /\ sig = NoSig

\* a map without one key, and a map with one key set (HashMap::remove, HashMap::insert)
\* (a lookup that leaves the entry in the map, as HashMap::get would)
Remove_keeps(m, k) == m
Remove(m, k) == [x \in DOMAIN m \ {k} |-> m[x]]
Insert(m, k, v) == [x \in DOMAIN m \cup {k} |-> IF x = k THEN v ELSE m[x]]

\* the request ends: its task is idle again and its locals are gone
Finish(p, r) ==
    /\ pc' = [pc EXCEPT ![p] = "idle"]
    /\ req' = [req EXCEPT ![p] = NoReq]
    /\ local' = [local EXCEPT ![p] = NoLocal]
    /\ resp' = r

\* a request arrives and a task starts serving it
Admit == nreq < MaxRequests /\ nreq' = nreq + 1

Start(p, state, r) ==
    /\ pc[p] = "idle"
    /\ Admit
    /\ pc' = [pc EXCEPT ![p] = state]
    /\ req' = [req EXCEPT ![p] = r]
    /\ UNCHANGED <<local, resp>>

Shared == <<head, temp_ads, blockstore, published, draft_gen, ncreated, appends>>
Locks == <<head_lock, temp_ads_lock, blockstore_lock>>

\* a path parameter that does not parse (as an i64, as a Cid)
BadParam == 0

\* SignedHead::new(keypair, head): the head Cid signed by the provider's key
SignedHead(keypair, cid) == <<keypair, cid>>

(* -------- the RwLocks -------- *)
\* lock.write().await completes, lock.read().await completes: no task holds the write guard.
\* No read guard is held across an await, so readers never block anyone.
\* (a write lock that is granted while another task holds it)
write_free_unguarded(lock) == TRUE
write_free(lock) == lock = 0
read_free(lock) == lock = 0

(* -------- GET /head -------- *)
head_start(p) ==
    /\ Start(p, "head_wait", [NoReq EXCEPT !.op = "head"])
    /\ UNCHANGED <<Shared, Locks>>
    /\ UNCHANGED sig

head_read(p) ==
    /\ pc[p] = "head_wait"
    /\ read_free(head_lock)
    /\ IF head # <<>>
       THEN Finish(p, Response("head", 0, "Ok", SignedHead(Keypair, head[1])))
       ELSE Finish(p, Response("head", 0, "NotFound", <<>>))
    /\ UNCHANGED <<Shared, Locks, nreq>>
    /\ UNCHANGED sig

(* -------- GET /:cid -------- *)
block_start(p) ==
    \E cid \in {BadParam} \cup (1..(Len(blockstore) + 1)) :
        /\ IF cid = BadParam
           THEN /\ pc[p] = "idle"
                /\ Admit
                /\ Finish(p, Response("block", cid, "ParseError", <<>>))
           ELSE Start(p, "block_wait", [NoReq EXCEPT !.op = "block", !.id = cid])
        /\ UNCHANGED <<Shared, Locks, sig>>

block_read(p) ==
    /\ pc[p] = "block_wait"
    /\ read_free(blockstore_lock)
    /\ \E store_ok \in BOOLEAN :
          IF ~store_ok
          THEN Finish(p, Response("block", req[p].id, "StoreError", <<>>))
          ELSE IF req[p].id \in 1..Len(blockstore)
          THEN Finish(p, Response("block", req[p].id, "Ok", <<req[p].id>>))
          ELSE Finish(p, Response("block", req[p].id, "NotFound", <<>>))
    /\ UNCHANGED <<Shared, Locks, nreq>>
    /\ UNCHANGED sig

(* -------- POST /create -------- *)
\* (a draft registered before the body is decoded)
create_start_registers(p) ==
    \E id \in Ids, decoded \in BOOLEAN, ad \in BodyAds :
        IF ~decoded
        THEN /\ pc[p] = "idle"
             /\ Admit
             /\ Finish(p, Response("create", 0, "DecodeError", <<>>))
             /\ temp_ads' = Insert(temp_ads, id, NoBuilder)
             /\ draft_gen' = Insert(draft_gen, id, 0)
             /\ appends' = Insert(appends, id, <<>>)
             /\ UNCHANGED <<head, blockstore, published, ncreated, Locks, sig>>
        ELSE /\ Start(p, "create_wait", [NoReq EXCEPT !.op = "create", !.id = id, !.ad = ad])
             /\ UNCHANGED <<Shared, Locks, sig>>

create_start(p) ==
    \E id \in Ids, decoded \in BOOLEAN, ad \in BodyAds :
        /\ IF ~decoded
           THEN /\ pc[p] = "idle"
                /\ Admit
                /\ Finish(p, Response("create", 0, "DecodeError", <<>>))
           ELSE Start(p, "create_wait", [NoReq EXCEPT !.op = "create", !.id = id, !.ad = ad])
        /\ UNCHANGED <<Shared, Locks, sig>>

create_insert(p) ==
    /\ pc[p] = "create_wait"
    /\ write_free(temp_ads_lock)
    /\ temp_ads' = Insert(temp_ads, req[p].id, [ad |-> req[p].ad, entries_link |-> IpldNone])
    /\ draft_gen' = Insert(draft_gen, req[p].id, ncreated + 1)
    /\ ncreated' = ncreated + 1
    /\ appends' = Insert(appends, req[p].id, <<>>)
    /\ Finish(p, Response("create", req[p].id, "Ok", <<req[p].id>>))
    /\ UNCHANGED <<head, blockstore, published, Locks, nreq>>
    /\ UNCHANGED sig

(* -------- POST /adv/:id/entryChunk -------- *)
\* EntryChunkBuilder::link_entries for a BlockStore; put_ok: whether the store's put succeeds
\* (a chunk stored without the link to the chunk before it)
bs_link_entries_unlinked(bs, entries_link, entries, put_ok) ==
    LET chunk == EntryChunk(entries, IpldNone)
    IN  IF put_ok
        THEN [ok |-> TRUE, bs |-> Put(bs, chunk), link |-> IpldLink(CidOf(Put(bs, chunk), chunk))]
        ELSE [ok |-> FALSE, bs |-> bs, link |-> IpldNone]
bs_link_entries(bs, entries_link, entries, put_ok) ==
    LET chunk == EntryChunk(entries, entries_link)
    IN  IF put_ok
        THEN [ok |-> TRUE, bs |-> Put(bs, chunk), link |-> IpldLink(CidOf(Put(bs, chunk), chunk))]
        ELSE [ok |-> FALSE, bs |-> bs, link |-> IpldNone]

\* AdvertisementBuilder::link_entries: entries_link is taken, then set if the put succeeded
link_entries(builder, bs, entries, put_ok) ==
    LET taken == [builder EXCEPT !.entries_link = IpldNone]
        r == bs_link_entries(bs, builder.entries_link, entries, put_ok)
    IN  IF r.ok
        THEN [ok |-> TRUE, bs |-> r.bs, builder |-> [taken EXCEPT !.entries_link = r.link]]
        ELSE [ok |-> FALSE, bs |-> bs, builder |-> taken]

add_chunk_start(p) ==
    \E id \in Ids \cup {BadParam}, decoded \in BOOLEAN, entries \in BodyEntries :
        /\ IF id = BadParam \/ ~decoded
           THEN /\ pc[p] = "idle"
                /\ Admit
                /\ Finish(p, Response("add_chunk", id,
                                      IF id = BadParam THEN "ParseError" ELSE "DecodeError", <<>>))
           ELSE Start(p, "chunk_wait_ta",
                         [NoReq EXCEPT !.op = "add_chunk", !.id = id, !.entries = entries])
        /\ UNCHANGED <<Shared, Locks, sig>>

\* (a lookup that registers an empty draft under an id it does not find)
add_chunk_lookup_inserts(p) ==
    /\ pc[p] = "chunk_wait_ta"
    /\ write_free(temp_ads_lock)
    /\ IF req[p].id \in DOMAIN temp_ads
       THEN /\ temp_ads_lock' = p
            /\ pc' = [pc EXCEPT ![p] = "chunk_wait_bs"]
            /\ UNCHANGED <<req, local, resp, temp_ads, draft_gen, appends>>
       ELSE /\ Finish(p, Response("add_chunk", req[p].id, "NotFound", <<>>))
            /\ temp_ads' = Insert(temp_ads, req[p].id, NoBuilder)
            /\ draft_gen' = Insert(draft_gen, req[p].id, 0)
            /\ appends' = Insert(appends, req[p].id, <<>>)
            /\ UNCHANGED temp_ads_lock
    /\ UNCHANGED <<head, blockstore, published, ncreated, head_lock, blockstore_lock, nreq>>
    /\ UNCHANGED sig

add_chunk_lookup(p) ==
    /\ pc[p] = "chunk_wait_ta"
    /\ write_free(temp_ads_lock)
    /\ IF req[p].id \in DOMAIN temp_ads
       THEN /\ temp_ads_lock' = p
            /\ pc' = [pc EXCEPT ![p] = "chunk_wait_bs"]
            /\ UNCHANGED <<req, local, resp>>
       ELSE /\ Finish(p, Response("add_chunk", req[p].id, "NotFound", <<>>))
            /\ UNCHANGED temp_ads_lock
    /\ UNCHANGED <<Shared, head_lock, blockstore_lock, nreq>>
    /\ UNCHANGED sig

\* (the temp_ads guard kept when the put fails)
add_chunk_link_keeps_guard(p) ==
    /\ pc[p] = "chunk_wait_bs"
    /\ write_free(blockstore_lock)
    /\ \E put_ok \in BOOLEAN :
          LET r == link_entries(temp_ads[req[p].id], blockstore, req[p].entries, put_ok)
          IN  /\ temp_ads' = [temp_ads EXCEPT ![req[p].id] = r.builder]
              /\ blockstore' = r.bs
              /\ appends' = [appends EXCEPT ![req[p].id] =
                                Append(@, [entries |-> req[p].entries, ok |-> r.ok])]
              /\ Finish(p, Response("add_chunk", req[p].id,
                                    IF r.ok THEN "Ok" ELSE "StoreError", <<>>))
              /\ temp_ads_lock' = IF r.ok THEN 0 ELSE temp_ads_lock
    /\ UNCHANGED <<head, published, draft_gen, ncreated, head_lock, blockstore_lock, nreq>>
    /\ UNCHANGED sig

add_chunk_link(p) ==
    /\ pc[p] = "chunk_wait_bs"
    /\ write_free(blockstore_lock)
    /\ \E put_ok \in BOOLEAN :
          LET r == link_entries(temp_ads[req[p].id], blockstore, req[p].entries, put_ok)
          IN  /\ temp_ads' = [temp_ads EXCEPT ![req[p].id] = r.builder]
              /\ blockstore' = r.bs
              /\ appends' = [appends EXCEPT ![req[p].id] =
                                Append(@, [entries |-> req[p].entries, ok |-> r.ok])]
              /\ Finish(p, Response("add_chunk", req[p].id,
                                    IF r.ok THEN "Ok" ELSE "StoreError", <<>>))
    /\ temp_ads_lock' = 0
    /\ UNCHANGED <<head, published, draft_gen, ncreated, head_lock, blockstore_lock, nreq>>
    /\ UNCHANGED sig

(* -------- POST /adv/:id/publish -------- *)
\* current_head.map(|h| Ipld::Link(h))
OptLink(h) == IF h = <<>> THEN IpldNone ELSE IpldLink(h[1])

\* lines 88-89: the advertisement is built (and signed), then its PreviousID is set
seal(builder, keypair, current_head) ==
    LET built == build(builder, keypair)
    IN  IF built.ok THEN Ok([built.val EXCEPT !.PreviousID = OptLink(current_head)])
        ELSE built

publish_ad_start(p) ==
    \E id \in Ids \cup {BadParam} :
        /\ IF id = BadParam
           THEN /\ pc[p] = "idle"
                /\ Admit
                /\ Finish(p, Response("publish_ad", id, "ParseError", <<>>))
           ELSE Start(p, "pub_wait_head", [NoReq EXCEPT !.op = "publish_ad", !.id = id])
        /\ UNCHANGED <<Shared, Locks, sig>>

\* lines 82-84: the head lock is taken and the head is taken out of it
publish_ad_claim(p) ==
    /\ pc[p] = "pub_wait_head"
    /\ write_free(head_lock)
    /\ head_lock' = p
    /\ local' = [local EXCEPT ![p].current_head = head]
    /\ head' = <<>>
    /\ pc' = [pc EXCEPT ![p] = "pub_wait_ta"]
    /\ UNCHANGED <<temp_ads, blockstore, published, draft_gen, ncreated, appends,
                   temp_ads_lock, blockstore_lock, req, resp, nreq>>
    /\ UNCHANGED sig

\* lines 85-86 and 101-104: the draft is removed from the registry, or the call fails
publish_ad_remove(p) ==
    /\ pc[p] = "pub_wait_ta"
    /\ write_free(temp_ads_lock)
    /\ IF req[p].id \in DOMAIN temp_ads
       THEN /\ temp_ads_lock' = p
            /\ temp_ads' = Remove(temp_ads, req[p].id)
            /\ draft_gen' = Remove(draft_gen, req[p].id)
            /\ appends' = Remove(appends, req[p].id)
            /\ local' = [local EXCEPT ![p].ad_builder = temp_ads[req[p].id],
                                      ![p].gen = draft_gen[req[p].id]]
            /\ pc' = [pc EXCEPT ![p] = "pub_wait_bs"]
            /\ UNCHANGED <<head_lock, req, resp>>
       ELSE /\ Finish(p, Response("publish_ad", req[p].id, "NotFound", <<>>))
            /\ head_lock' = 0
            /\ UNCHANGED <<temp_ads, draft_gen, appends, temp_ads_lock>>
    /\ UNCHANGED <<head, blockstore, published, ncreated, blockstore_lock, nreq>>
    /\ UNCHANGED sig

\* lines 87-98: seal, store, advance
publish_ad_store(p) ==
    /\ pc[p] = "pub_wait_bs"
    /\ write_free(blockstore_lock)
    /\ LET sealed == seal(local[p].ad_builder, Keypair, local[p].current_head)
       IN  IF ~sealed.ok
           THEN /\ Finish(p, Response("publish_ad", req[p].id, "SealError", <<>>))
                /\ UNCHANGED <<head, blockstore, published>>
           ELSE \E put_ok \in BOOLEAN :
                  IF ~put_ok
                  THEN /\ Finish(p, Response("publish_ad", req[p].id, "StoreError", <<>>))
                       /\ UNCHANGED <<head, blockstore, published>>
                  ELSE LET bs == Put(blockstore, sealed.val)
                           cid == CidOf(bs, sealed.val)
                       IN  /\ blockstore' = bs
                           /\ head' = <<cid>>
                           /\ published' = Append(published,
                                  [id |-> req[p].id, gen |-> local[p].gen,
                                   cid |-> cid, ad |-> sealed.val,
                                   previous |-> local[p].current_head])
                           /\ Finish(p, Response("publish_ad", req[p].id, "Ok", <<cid>>))
    /\ head_lock' = 0
    /\ temp_ads_lock' = 0
    /\ UNCHANGED <<temp_ads, draft_gen, ncreated, appends, blockstore_lock, nreq>>
    /\ UNCHANGED sig

Next ==
    \E p \in Procs :
        \/ head_start(p)
        \/ head_read(p)
        \/ block_start(p)
        \/ block_read(p)
        \/ create_start(p)
        \/ create_insert(p)
        \/ add_chunk_start(p)
        \/ add_chunk_lookup(p)
        \/ add_chunk_link(p)
        \/ publish_ad_start(p)
        \/ publish_ad_claim(p)
        \/ publish_ad_remove(p)
        \/ publish_ad_store(p)

Spec == Init /\ [][Next]_vars

\* the steps a started request takes: each is the request's task polled past an await
Progress(p) ==
    \/ head_read(p)
    \/ block_read(p)
    \/ create_insert(p)
    \/ add_chunk_lookup(p)
    \/ add_chunk_link(p)
    \/ publish_ad_claim(p)
    \/ publish_ad_remove(p)
    \/ publish_ad_store(p)

\* the executor polls every task that can run: fair scheduling of the request tasks
NextFair == Next /\ nreq' <= MaxFairRequests

SpecFair == Init /\ [][NextFair]_vars /\ \A p \in Procs : WF_vars(Progress(p))

(* -------- an advertisement builder on its own: build, verify_sig -------- *)
\* the advertisements and entries links a builder is made of
SigAds ==
    [PreviousID : {IpldNone, IpldLink(1), IpldOther},
     Provider : {<<1>>, <<1, 2>>},
     Addresses : {<< <<1, 2>>, <<3>> >>, << <<1>>, <<2, 3>> >>, << <<2>> >>},
     Signature : {IpldBytes(<<>>), IpldOther},
     Entries : {IpldNone, IpldLink(2), IpldOther},
     ContextID : {IpldBytes(<<3>>), IpldBytes(<<4>>)},
     Metadata : {IpldBytes(<<>>), IpldBytes(<<7>>), IpldOther},
     IsRm : BOOLEAN]
SigLinks == {IpldNone, IpldLink(2), IpldOther}

InitSig ==
    /\ InitProvider
    /\ sig \in [builder : [ad : SigAds, entries_link : SigLinks], stage : {"input"}, res : {"None"}]

\* AdvertisementBuilder::build(keypair): the builder is consumed, the advertisement returned
sig_build ==
    /\ sig.stage = "input"
    /\ LET built == build(sig.builder, Keypair)
       IN  sig' = IF built.ok
                  THEN [builder |-> [sig.builder EXCEPT !.ad = built.val],
                        stage |-> "built", res |-> "Ok"]
                  ELSE [sig EXCEPT !.stage = "failed", !.res = built.err]
    /\ UNCHANGED provider

\* Advertisement::verify_sig on the advertisement as received, or as built
sig_verify ==
    /\ sig.stage \in {"input", "built"}
    /\ sig' = [sig EXCEPT !.stage = IF sig.stage = "input" THEN "verified_input"
                                    ELSE "verified_built",
                          !.res = verify_sig(sig.builder.ad)]
    /\ UNCHANGED provider

NextSig == sig_build \/ sig_verify

SpecSig == InitSig /\ [][NextSig]_vars

(* ======================= the claims ======================= *)

\* the tasks between publish_ad's claim of the head and its return
InPublish == {q \in Procs : pc[q] \in {"pub_wait_ta", "pub_wait_bs"}}
\* task p's publish_ad returns in this step
PublishReturns(p) == pc[p] \in {"pub_wait_ta", "pub_wait_bs"} /\ pc'[p] = "idle"
LastPublished == published[Len(published)]

\* C1: no two successfully published advertisements carry the same PreviousID,
\* absent counting as a value (at most one published advertisement has none).
C1_DistinctPrevious ==
    \A i, j \in 1..Len(published) :
        i # j => published[i].ad.PreviousID # published[j].ad.PreviousID

\* C2: every published advertisement's PreviousID is the identifier returned by the
\* most recent earlier successful publish, and is absent only for the first one.
C2_PreviousIsPredecessor ==
    \A i \in 1..Len(published) :
        published[i].ad.PreviousID =
            IF i = 1 THEN IpldNone ELSE IpldLink(published[i - 1].cid)

\* C3: every advertisement publish_ad put in the block store verifies: the payload in
\* its Signature envelope is the payload recomputed from the stored record's fields.
C3_StoredSignatureVerifies ==
    \A i \in 1..Len(published) :
        /\ published[i].cid \in 1..Len(blockstore)
        /\ blockstore[published[i].cid] = published[i].ad
        /\ verify_sig(blockstore[published[i].cid]) = "Ok"

\* C4: when the store's put of the sealed advertisement fails, publish_ad returns the
\* failure and releases the head lock with head holding its value from before the publish.
C4_StoreFailureRestoresHead ==
    [][\A p \in Procs :
          (PublishReturns(p) /\ resp'.status = "StoreError")
              => (head_lock' = 0 /\ head' = local[p].current_head)]_vars

\* C5: across a publish critical section head only moves forward: a head that held an
\* identifier when the lock was taken holds one when it is released, and it differs
\* from the earlier one only by being the identifier of a newly stored advertisement.
C5_HeadMovesForward ==
    [][\A p \in Procs :
          (PublishReturns(p) /\ local[p].current_head # <<>>)
              => /\ head' # <<>>
                 /\ head' # local[p].current_head
                       => /\ Len(published') = Len(published) + 1
                          /\ head' = <<published'[Len(published')].cid>>]_vars

\* C6: whenever no publish_ad holds the head lock, head is absent iff no publish has
\* succeeded, and otherwise is the identifier returned by the latest successful publish.
C6_HeadIsLatestPublished ==
    head_lock = 0 =>
        head = IF published = <<>> THEN <<>> ELSE <<LastPublished.cid>>

\* C7: a draft is consumed exactly once: publish_ad leaves its id out of the registry,
\* an id comes (back) into the registry only by create, publish_ad and add_chunk on an id
\* that is not in the registry answer not-found, and no draft is published twice.
C7_DraftConsumedOnce ==
    /\ [](\A i, j \in 1..Len(published) : i # j => published[i].gen # published[j].gen)
    /\ [][\A p \in Procs :
             /\ PublishReturns(p) => req[p].id \notin DOMAIN temp_ads'
             /\ (pc[p] = "pub_wait_ta" /\ pc'[p] = "pub_wait_bs")
                    => req[p].id \notin DOMAIN temp_ads'
             /\ (/\ pc[p] \in {"pub_wait_ta", "chunk_wait_ta"}
                 /\ pc'[p] # pc[p]
                 /\ req[p].id \notin DOMAIN temp_ads)
                    => (pc'[p] = "idle" /\ resp' = Response(req[p].op, req[p].id, "NotFound", <<>>))
             /\ (pc[p] = "chunk_wait_bs" /\ pc'[p] = "idle")
                    => req[p].id \in DOMAIN temp_ads]_vars
    /\ [][\A id \in Ids :
             (id \notin DOMAIN temp_ads /\ id \in DOMAIN temp_ads')
                 => \E p \in Procs : pc[p] = "create_wait" /\ pc'[p] = "idle" /\ req[p].id = id]_vars

\* C7 witness: a draft was published and a later publish_ad of its id answered not-found
C7_Witness ==
    /\ resp = Response("publish_ad", resp.id, "NotFound", <<>>)
    /\ \E i \in 1..Len(published) : published[i].id = resp.id

\* C8: when sealing fails, publish_ad rolls the head claim back before it releases the
\* head lock: head is not left absent where a head existed.
C8_SealFailureRestoresHead ==
    [][\A p \in Procs :
          (PublishReturns(p) /\ resp'.status = "SealError")
              => (head_lock' = 0 /\ head' = local[p].current_head)]_vars

\* C9: publish_ad holds the head's write guard from its claim to its return: at most
\* one publish_ad is between claim and advance, it is the holder of the head lock, and
\* no head request is answered and no other publish claims the head meanwhile.
C9_PublishExclusive ==
    /\ [](/\ Cardinality(InPublish) <= 1
          /\ \A p \in InPublish : head_lock = p
          /\ InPublish = {} => head_lock = 0)
    /\ [][\A p \in Procs :
             /\ (pc[p] = "head_wait" /\ pc'[p] = "idle") => InPublish = {}
             /\ (pc[p] = "pub_wait_head" /\ pc'[p] = "pub_wait_ta") => InPublish = {}]_vars

\* C9 witness: one publish_ad is past its claim while a head request and another
\* publish_ad wait for the head lock
C9_Witness ==
    \E p, q \in Procs :
        /\ pc[p] = "pub_wait_bs"
        /\ pc[q] \in {"head_wait", "pub_wait_head"}

\* C10: the id create returns is not the id of an open draft, so create replaces no
\* draft and the registry grows by exactly one draft per successful create.
C10_CreateIsFresh ==
    [][\A p \in Procs :
          (pc[p] = "create_wait" /\ pc'[p] = "idle")
              => /\ req[p].id \notin DOMAIN temp_ads
                 /\ Cardinality(DOMAIN temp_ads') = Cardinality(DOMAIN temp_ads) + 1]_vars

\* the entry lists met when a chain of chunks is followed from a link through Next
RECURSIVE ChainEntries(_, _)
ChainEntries(bs, link) ==
    IF link.kind # "Link" THEN <<>>
    ELSE <<bs[link.val[1]].Entries>> \o ChainEntries(bs, bs[link.val[1]].Next)

Reverse(seq) == [i \in 1..Len(seq) |-> seq[Len(seq) + 1 - i]]
\* the entry lists of the attempts on a draft, and of those that were acknowledged
Attempted(id) == [i \in 1..Len(appends[id]) |-> appends[id][i].entries]
Acknowledged(id) ==
    LET oks == SelectSeq(appends[id], LAMBDA a : a.ok)
    IN  [i \in 1..Len(oks) |-> oks[i].entries]
AllAcknowledged(id) == \A i \in 1..Len(appends[id]) : appends[id][i].ok
\* task p's add_chunk is acknowledged in this step
AppendSucceeds(p) == pc[p] = "chunk_wait_bs" /\ pc'[p] = "idle" /\ resp'.status = "Ok"
\* task p's publish_ad succeeds in this step
PublishSucceeds(p) == pc[p] = "pub_wait_bs" /\ pc'[p] = "idle" /\ resp'.status = "Ok"

\* the chain part of C11: a draft whose appends E1..En all succeeded holds a link whose
\* chain reads En, ..., E1 (none for n = 0); an append links the previous link as Next;
\* the advertisement built from a draft has the draft's entries_link as Entries
LifoChain ==
    /\ [](\A id \in DOMAIN temp_ads :
             AllAcknowledged(id)
                 => ChainEntries(blockstore, temp_ads[id].entries_link) = Reverse(Attempted(id)))
    /\ [][\A p \in Procs :
             /\ AppendSucceeds(p)
                    => LET new == temp_ads'[req[p].id].entries_link
                       IN  /\ new.kind = "Link"
                           /\ blockstore'[new.val[1]] =
                                  EntryChunk(req[p].entries, temp_ads[req[p].id].entries_link)
             /\ PublishSucceeds(p)
                    => published'[Len(published')].ad.Entries = local[p].ad_builder.entries_link]_vars

\* C11 as stated: entry chunks form a LIFO chain (see LifoChain) and each successful
\* append stores exactly one new chunk: the block store grows by one block.
C11_LifoChainOneNewChunk ==
    /\ LifoChain
    /\ [][\A p \in Procs :
             AppendSucceeds(p) => Len(blockstore') = Len(blockstore) + 1]_vars

\* C11 amended: entry chunks form a LIFO chain (see LifoChain) and each successful append
\* puts exactly one chunk: the block store grows by that one block, or stays as it is
\* when an identical chunk (same Entries, same Next) is already stored.
C11_LifoChain ==
    /\ LifoChain
    /\ [][\A p \in Procs :
             AppendSucceeds(p)
                 => LET chunk == EntryChunk(req[p].entries, temp_ads[req[p].id].entries_link)
                    IN  blockstore' = IF Has(blockstore, chunk) THEN blockstore
                                      ELSE Append(blockstore, chunk)]_vars

\* C11 witness: a draft with two acknowledged appends of different entry lists
C11_Witness ==
    \E id \in DOMAIN temp_ads :
        /\ Len(appends[id]) = 2
        /\ AllAcknowledged(id)
        /\ appends[id][1].entries # appends[id][2].entries

\* C12: the entry chain of a draft is append-only: after any add_chunk attempts, failed
\* ones included, the chain from the draft's entries_link still reads every acknowledged
\* entry list, newest first.
C12_AcknowledgedChunksReachable ==
    \A id \in DOMAIN temp_ads :
        ChainEntries(blockstore, temp_ads[id].entries_link) = Reverse(Acknowledged(id))

\* a field that is absent or a link; a field that is a byte string
LinkOrAbsent(v) == v.kind \in {"None", "Link"}
IsBytes(v) == v.kind = "Bytes"
\* the builder sig holds can be signed: C13's condition on the draft
Signable(builder) ==
    /\ LinkOrAbsent(builder.ad.PreviousID)
    /\ LinkOrAbsent(builder.entries_link)
    /\ IsBytes(builder.ad.Metadata)

\* C13: build then verify: for every draft whose PreviousID and entries_link are absent
\* or links and whose Metadata is a byte string, build succeeds and the advertisement it
\* returns passes verify_sig.
C13_BuildThenVerify ==
    /\ sig.stage = "failed" => ~Signable(sig.builder)
    /\ sig.stage = "built" => verify_sig(sig.builder.ad) = "Ok"
    /\ sig.stage = "verified_built" => sig.res = "Ok"

\* C13 witness: a built advertisement with a previous link and an entries link was verified
C13_Witness ==
    /\ sig.stage = "verified_built"
    /\ sig.builder.ad.PreviousID.kind = "Link"
    /\ sig.builder.ad.Entries.kind = "Link"

ContextIDs == {a.ContextID : a \in SigAds}
Signatures == {a.Signature : a \in SigAds}

\* C14: the signing payload does not depend on ContextID or Signature, and changing the
\* ContextID of an advertisement, signed or not, does not change what verify_sig returns.
C14_ContextIDNotSigned ==
    LET ad == sig.builder.ad
    IN  /\ \A c \in ContextIDs, g \in Signatures :
               sig_payload([ad EXCEPT !.ContextID = c, !.Signature = g]) = sig_payload(ad)
        /\ \A c \in ContextIDs : verify_sig([ad EXCEPT !.ContextID = c]) = verify_sig(ad)

\* C14 witness: a signed advertisement that verifies, and verifies with another ContextID
C14_Witness ==
    /\ sig.stage = "built"
    /\ verify_sig(sig.builder.ad) = "Ok"
    /\ \E c \in ContextIDs :
           c # sig.builder.ad.ContextID /\ verify_sig([sig.builder.ad EXCEPT !.ContextID = c]) = "Ok"

\* the bytes C15 lists, in its order: previous link, entries link, provider, each address,
\* metadata, the removal byte
LinkBytes(v) == IF v.kind = "Link" THEN <<100 + v.val[1]>> ELSE <<>>
RECURSIVE AddressBytes(_, _)
AddressBytes(addresses, n) ==
    IF n = 0 THEN <<>> ELSE AddressBytes(addresses, n - 1) \o addresses[n]
ListedBytes(ad) ==
    LinkBytes(ad.PreviousID) \o LinkBytes(ad.Entries) \o ad.Provider
    \o AddressBytes(ad.Addresses, Len(ad.Addresses)) \o ad.Metadata.val
    \o <<IF ad.IsRm THEN 1 ELSE 0>>
PayloadDefined(ad) ==
    LinkOrAbsent(ad.PreviousID) /\ LinkOrAbsent(ad.Entries) /\ IsBytes(ad.Metadata)

\* C15: sig_payload is the digest of the listed bytes in the listed order, without
\* separators: field sets with the same concatenation get the same payload.
C15_PayloadIsConcatenation ==
    LET ad == sig.builder.ad
    IN  PayloadDefined(ad) =>
            /\ sig_payload(ad) = Ok(<<Sha2_256>> \o ListedBytes(ad))
            /\ \A other \in SigAds :
                   (PayloadDefined(other) /\ ListedBytes(other) = ListedBytes(ad))
                       => sig_payload(other) = sig_payload(ad)

\* C15 witness: an advertisement whose addresses split the same bytes differently from
\* another advertisement's, and whose two links are both present
C15_Witness ==
    LET ad == sig.builder.ad
    IN  /\ sig.stage = "built"
        /\ SubSeq(ad.Signature.val, 4, Len(ad.Signature.val)) = <<Sha2_256>> \o ListedBytes(ad)
        /\ ad.PreviousID.kind = "Link" /\ ad.Entries.kind = "Link"
        /\ ad.Addresses = << <<1>>, <<2, 3>> >>
        /\ sig_payload([ad EXCEPT !.Addresses = << <<1, 2>>, <<3>> >>]) = sig_payload(ad)

\* the error C19 expects of an advertisement's fields, "" if none
FieldError(ad) ==
    CASE ~LinkOrAbsent(ad.PreviousID) -> "InvalidPreviousID"
      [] LinkOrAbsent(ad.PreviousID) /\ ~LinkOrAbsent(ad.Entries) -> "InvalidEntryChunkLink"
      [] LinkOrAbsent(ad.PreviousID) /\ LinkOrAbsent(ad.Entries) /\ ~IsBytes(ad.Metadata)
           -> "InvalidMetadata"
      [] OTHER -> ""

\* C19: sig_payload fails with InvalidPreviousID, InvalidEntryChunkLink, InvalidMetadata,
\* checked in that order; build and verify_sig return these errors unchanged, and
\* verify_sig returns them whatever the Signature field holds.
C19_FieldErrorsInOrder ==
    LET ad == sig.builder.ad
        signed == [ad EXCEPT !.Entries = sig.builder.entries_link]
    IN  /\ FieldError(ad) # "" => /\ sig_payload(ad) = Err(FieldError(ad))
                                  /\ \A g \in Signatures :
                                         verify_sig([ad EXCEPT !.Signature = g]) = FieldError(ad)
        /\ FieldError(ad) = "" => sig_payload(ad).ok
        /\ sig.stage = "verified_input" /\ FieldError(ad) # "" => sig.res = FieldError(ad)
        /\ sig.stage = "failed" => sig.res = FieldError(signed) /\ sig.res # ""
        /\ sig.stage = "built" => FieldError(ad) = ""

\* C19 witness: verify_sig returned InvalidPreviousID for an advertisement whose Entries,
\* Metadata and Signature are all of the wrong kind too
C19_Witness ==
    /\ sig.stage = "verified_input"
    /\ sig.res = "InvalidPreviousID"
    /\ ~LinkOrAbsent(sig.builder.ad.Entries)
    /\ ~IsBytes(sig.builder.ad.Metadata)
    /\ ~IsBytes(sig.builder.ad.Signature)

\* task p's add_chunk or publish_ad looks its draft up in this step and does not find it
LookupFails(p, state) ==
    pc[p] = state /\ pc'[p] # pc[p] /\ req[p].id \notin DOMAIN temp_ads

\* C16: add_chunk on a draft id that is not in the registry answers not-found and has
\* no effect: no chunk is put, head and the registry are unchanged.
C16_AddChunkNotFound ==
    [][\A p \in Procs :
          LookupFails(p, "chunk_wait_ta")
              => /\ resp' = Response("add_chunk", req[p].id, "NotFound", <<>>)
                 /\ pc'[p] = "idle"
                 /\ UNCHANGED <<head, temp_ads, blockstore, Locks>>]_vars

\* C16 witness: an add_chunk answered not-found while a block and a head exist
C16_Witness ==
    /\ resp = Response("add_chunk", resp.id, "NotFound", <<>>)
    /\ blockstore # <<>>
    /\ head # <<>>

\* C17: publish_ad on a draft id that is not in the registry answers not-found and
\* leaves head, the registry and the block store as they were before the call.
C17_PublishNotFound ==
    [][\A p \in Procs :
          LookupFails(p, "pub_wait_ta")
              => /\ resp' = Response("publish_ad", req[p].id, "NotFound", <<>>)
                 /\ head' = local[p].current_head
                 /\ UNCHANGED <<temp_ads, blockstore>>]_vars

\* task p's create is refused in this step because its body does not decode
CreateRefused(p) ==
    pc[p] = "idle" /\ pc'[p] = "idle" /\ nreq' # nreq /\ resp'.op = "create"

\* C20: a create whose body does not decode as an Advertisement answers with an error
\* and registers no draft: the registry, head and the block store are unchanged.
C20_CreateUndecodable ==
    [][\A p \in Procs :
          (CreateRefused(p) /\ pc' = pc)
              => /\ resp'.status = "DecodeError"
                 /\ UNCHANGED <<head, temp_ads, blockstore, Locks>>]_vars

\* C20 witness: a create was refused while a draft was open
C20_Witness ==
    /\ resp = Response("create", 0, "DecodeError", <<>>)
    /\ DOMAIN temp_ads # {}

\* the guards a task holds where it waits: none waiting for head; head alone waiting
\* for temp_ads in publish_ad; temp_ads (and head in publish_ad) waiting for blockstore
LockOrder ==
    /\ blockstore_lock = 0
    /\ \A p \in Procs :
          /\ head_lock = p <=> pc[p] \in {"pub_wait_ta", "pub_wait_bs"}
          /\ temp_ads_lock = p <=> pc[p] \in {"chunk_wait_bs", "pub_wait_bs"}
\* a started request can take a step
NoDeadlock == (\E p \in Procs : pc[p] # "idle") => \E p \in Procs : ENABLED Progress(p)

\* C18: the handlers take the locks in one order (head, temp_ads, blockstore), no
\* interleaving of requests deadlocks, and under fair scheduling every started request
\* completes and releases its locks.
C18_NoDeadlockAllComplete ==
    /\ [](LockOrder /\ NoDeadlock)
    /\ \A p \in Procs : (pc[p] # "idle") ~> (pc[p] = "idle" /\ head_lock # p /\ temp_ads_lock # p)

\* C18 witness: a publish_ad holding head and temp_ads while an add_chunk waits for temp_ads
C18_Witness ==
    \E p, q \in Procs :
        /\ pc[p] = "pub_wait_bs"
        /\ pc[q] = "chunk_wait_ta"
====
